---- MODULE Spec2Model ----
(***************************************************************************)
(* Verification model of the Instacart recommender notebook                *)
(* (src/src/imf.ipynb): implicit matrix factorisation with ALS, the        *)
(* popularity baseline and the recall evaluation.                          *)
(*                                                                         *)
(* Numbers that the notebook computes as floats are kept exact: a recall   *)
(* value is the pair [num, den] of the division the code performs.         *)
(***************************************************************************)
EXTENDS Integers, Sequences, FiniteSets, TLC

(***************************************************************************)
(* Bounds of the model                                                     *)
(***************************************************************************)
\* product ids that may occur in the lists handed to recall_score are 1..MaxItem
MaxItem == 5
\* longest `actual` list handed to recall_score
MaxActualLen == 3
\* longest `pred` list handed to recall_score
MaxPredLen == 4
\* number of orders in orders.csv (order ids are 1..MaxOrders)
MaxOrders == 2
\* number of order lines in the order_products__*.csv files together
MaxLines == 3
\* the scores of the model (dot products of factors) are 1..MaxScore
MaxScore == 2
\* number of order lines of the data set the evaluation functions run on
MaxEvalLines == 6
\* the evaluation functions run with N = 1..MaxN and with N = N_REC
MaxN == 2
\* the iteration count T of a training run is 1..MaxIterations
MaxIterations == 2
\* number of worker threads of a half-step
MaxWorkers == 2
\* number of states the unseeded random generator may start a run from
MaxSeed == 2

\* The raw ids of the data set are sparse.  The model takes the ids the
\* notebook itself names: user 1 and user 17, product 1 and product 196.
UserIds == {1, 17}
ProductIds == {1, 196}
EvalSets == {"prior", "train"}

(***************************************************************************)
(* Generic helpers                                                         *)
(***************************************************************************)
Range(s) == {s[i] : i \in 1..Len(s)}

SeqsUpTo(S, n) == UNION {[1..m -> S] : m \in 0..n}

Min(S) == CHOOSE x \in S : \A y \in S : x <= y
Max(S) == CHOOSE x \in S : \A y \in S : y <= x

\* the elements of a finite set of integers in ascending order
RECURSIVE SortedSeq(_)
SortedSeq(S) ==
    IF S = {} THEN <<>> ELSE <<Min(S)>> \o SortedSeq(S \ {Min(S)})

\* number of positions of s that satisfy Test
CountIf(s, Test(_)) == Cardinality({i \in 1..Len(s) : Test(s[i])})

\* position of x in the sequence s (s holds x exactly once)
IndexOf(s, x) == CHOOSE i \in 1..Len(s) : s[i] = x

(***************************************************************************)
(* The csv inputs (cell 2)                                                 *)
(*   df_orders                : order_id -> user_id, eval_set              *)
(*   df_order_products_prior  : the lines (order_id, product_id) of the    *)
(*                              orders whose eval_set is "prior"           *)
(*   df_order_products_train  : the lines of the "train" orders            *)
(***************************************************************************)
OrderIds == 1..MaxOrders
OrderTables == [OrderIds -> [user_id : UserIds, eval_set : EvalSets]]
LineRows == [order_id : OrderIds, product_id : ProductIds]

\* the files of at most n order lines of the orders O from order o on; the
\* csv files list the lines order by order
RECURSIVE LinesFrom(_, _, _)
LinesFrom(O, o, n) ==
    IF n = 0 THEN {<<>>}
    ELSE {<<>>} \cup
         UNION {{<<[order_id |-> o2, product_id |-> p]>> \o rest :
                    rest \in LinesFrom(O, o2, n - 1)} :
                o2 \in {x \in O : x >= o}, p \in ProductIds}

\* the order lines of all orders
LineFiles == LinesFrom(OrderIds, 1, MaxLines)

\* the rows of a line file: the lines of the orders of one eval_set
LinesOf(orders, lines, es) ==
    SelectSeq(lines, LAMBDA l : orders[l.order_id].eval_set = es)

(***************************************************************************)
(* get_user_product_prior_df (cell 5)                                      *)
(***************************************************************************)
\* df_merged[["user_id", "product_id"]]: the inner merge on order_id of the
\* "prior" rows of df_orders with the prior order lines
MergedPrior(orders, prior_lines) ==
    LET kept == SelectSeq(prior_lines,
                   LAMBDA l : orders[l.order_id].eval_set = "prior")
    IN  [i \in 1..Len(kept) |->
            [user_id |-> orders[kept[i].order_id].user_id,
             product_id |-> kept[i].product_id]]

\* the row keys of groupby(["user_id", "product_id"]) in the order pandas
\* emits them: ascending by user_id, then by product_id
RECURSIVE GroupKeys(_)
GroupKeys(K) ==
    IF K = {} THEN <<>>
    ELSE LET u == Min({k[1] : k \in K})
             p == Min({k[2] : k \in {j \in K : j[1] = u}})
         IN  <<(<<u, p>>)>> \o GroupKeys(K \ {<<u, p>>})

\* a bug that keeps one row per pair without counting (overwrite, not sum)
get_user_product_prior_df_overwrite(orders, prior_lines) ==
    LET m == MergedPrior(orders, prior_lines)
        keys == GroupKeys({<<m[i].user_id, m[i].product_id>> : i \in 1..Len(m)})
    IN  [i \in 1..Len(keys) |->
            [user_id |-> keys[i][1], product_id |-> keys[i][2], quantity |-> 1]]

\* def get_user_product_prior_df: the rows written to user_products__prior.csv,
\* .groupby(["user_id", "product_id"]).size() renamed to "quantity"
get_user_product_prior_df(orders, prior_lines) ==
    LET m == MergedPrior(orders, prior_lines)
        keys == GroupKeys({<<m[i].user_id, m[i].product_id>> : i \in 1..Len(m)})
    IN  [i \in 1..Len(keys) |->
            [user_id |-> keys[i][1],
             product_id |-> keys[i][2],
             quantity |-> CountIf(m, LAMBDA r : r.user_id = keys[i][1]
                                             /\ r.product_id = keys[i][2])]]

(***************************************************************************)
(* astype("category") (cell 5): .cat.categories and .cat.codes             *)
(***************************************************************************)
\* .cat.categories of a column: its distinct values, ascending
cat_categories(df, col) == SortedSeq({df[i][col] : i \in 1..Len(df)})

\* a bug that numbers the categories from 1
cat_code_onebased(categories, v) == IndexOf(categories, v)

\* .cat.codes of one value: its zero-based position in the categories
cat_code(categories, v) == IndexOf(categories, v) - 1

(***************************************************************************)
(* build_product_user_matrix (cell 6)                                      *)
(* A sparse matrix is [nrows, ncols, data] with data a function from the   *)
(* stored (row, col) positions to the stored values.                       *)
(***************************************************************************)
RECURSIVE SumOver(_, _)
SumOver(S, f) ==
    IF S = {} THEN 0
    ELSE LET x == CHOOSE y \in S : TRUE IN f[x] + SumOver(S \ {x}, f)

\* sparse.coo_matrix((quantity, (product codes, user codes))) followed by
\* .tocsr(): the shape is inferred from the largest index, entries on the
\* same position are summed.  The caller guards against an empty frame.
build_product_user_matrix(df) ==
    LET pcat == cat_categories(df, "product_id")
        ucat == cat_categories(df, "user_id")
        pos(i) == <<cat_code(pcat, df[i].product_id),
                    cat_code(ucat, df[i].user_id)>>
        stored == {pos(i) : i \in 1..Len(df)}
    IN  [nrows |-> Max({q[1] : q \in stored}) + 1,
         ncols |-> Max({q[2] : q \in stored}) + 1,
         data |-> [q \in stored |->
                     SumOver({i \in 1..Len(df) : pos(i) = q},
                             [i \in 1..Len(df) |-> df[i].quantity])]]

\* matrix.T
Transpose(m) ==
    [nrows |-> m.ncols, ncols |-> m.nrows,
     data |-> [q \in {<<r[2], r[1]>> : r \in DOMAIN m.data} |-> m.data[<<q[2], q[1]>>]]]

\* matrix[row].indices: the columns with a stored entry in the row
RowIndices(m, row) == {q[2] : q \in {r \in DOMAIN m.data : r[1] = row}}

(***************************************************************************)
(* confidence_matrix (cell 9)                                              *)
(***************************************************************************)
\* def confidence_matrix: (prod_user_matrix * alpha).astype("double")
confidence_matrix(prod_user_matrix, alpha) ==
    [prod_user_matrix EXCEPT
        !.data = [q \in DOMAIN prod_user_matrix.data |->
                     prod_user_matrix.data[q] * alpha]]

(***************************************************************************)
(* make_test_data (cell 3)                                                 *)
(***************************************************************************)
\* A list cell of a dataframe is written to csv as the text of the Python
\* list: "[196, 1]".  The text is kept as its tokens: the two brackets, the
\* numerals (with the integer they spell) and the commas between them.
Tok(c) == [ch |-> c, n |-> 0]
Numeral(n) == [ch |-> "9", n |-> n]

str_of_list(l) ==
    <<Tok("[")>>
    \o [i \in 1..(IF Len(l) = 0 THEN 0 ELSE 2 * Len(l) - 1) |->
           IF i % 2 = 1 THEN Numeral(l[(i + 1) \div 2]) ELSE Tok(",")]
    \o <<Tok("]")>>

\* the order ids of a frame of lines, ascending (groupby("order_id"))
OrdersOfLines(ls) == SortedSeq({ls[i].order_id : i \in 1..Len(ls)})

\* .groupby("order_id")["product_id"].apply(list) for one order
ProductsOfOrder(ls, o) ==
    LET mine == SelectSeq(ls, LAMBDA l : l.order_id = o)
    IN  [i \in 1..Len(mine) |-> mine[i].product_id]

\* df_order_user_current: the order ids of the "train" rows of df_orders
TrainOrders(orders) ==
    SortedSeq({o \in DOMAIN orders : orders[o].eval_set = "train"})

\* the two sanity checks of make_test_data
make_test_data_asserts(orders, train_lines) ==
    /\ Len(TrainOrders(orders)) = Len(OrdersOfLines(train_lines))
    /\ Len(OrdersOfLines(train_lines)) * 2 = Len(TrainOrders(orders)) * 2

\* def make_test_data: the rows written to user_products__test.csv, one per
\* train order that has lines, in the order of df_orders
make_test_data(orders, train_lines) ==
    LET cur == SelectSeq(TrainOrders(orders),
                   LAMBDA o : o \in Range(OrdersOfLines(train_lines)))
    IN  [i \in 1..Len(cur) |->
            [user_id |-> orders[cur[i]].user_id,
             products |-> str_of_list(ProductsOfOrder(train_lines, cur[i]))]]

(***************************************************************************)
(* AlternatingLeastSquares.recommend and get_k_popular share their         *)
(* selection: the n best elements by a key, best first.  Elements with     *)
(* equal keys come in an order the library does not fix.                   *)
(***************************************************************************)
TopSeqs(S, key(_), n) ==
    LET len == IF n < Cardinality(S) THEN n ELSE Cardinality(S)
    IN  {s \in [1..len -> S] :
            /\ \A i, j \in 1..len : i # j => s[i] # s[j]
            /\ \A i \in 1..len : \A j \in 1..len : i < j => key(s[i]) >= key(s[j])
            /\ \A x \in S \ Range(s) : \A i \in 1..len : key(s[i]) >= key(x)}

\* a bug that ranks the least frequent products first
get_k_popular_ascending(k, df_merged_order_products_prior) ==
    LET df == df_merged_order_products_prior
        ids == {df[i].product_id : i \in 1..Len(df)}
        count(p) == 0 - CountIf(df, LAMBDA r : r.product_id = p)
    IN  TopSeqs(ids, count, k)

\* def get_k_popular: list(df["product_id"].value_counts().head(k).index);
\* the set of lists the call may return
get_k_popular(k, df_merged_order_products_prior) ==
    LET df == df_merged_order_products_prior
        ids == {df[i].product_id : i \in 1..Len(df)}
        count(p) == CountIf(df, LAMBDA r : r.product_id = p)
    IN  TopSeqs(ids, count, k)

\* a bug that does not remove the liked items
recommend_unfiltered(nitems, userid, user_items, N, score) ==
    TopSeqs(0..(nitems - 1), LAMBDA i : score[i], N)

\* imf_model.recommend(userid, user_items, N): the item indices of the N best
\* scored items that have no stored entry in row `userid` of user_items;
\* score[i] stands for the dot product of the user's and item i's factors.
\* The set of lists the call may return.
recommend(nitems, userid, user_items, N, score) ==
    LET liked == RowIndices(user_items, userid)
    IN  TopSeqs((0..(nitems - 1)) \ liked, LAMBDA i : score[i], N)

(***************************************************************************)
(* recall_score (cell 16)                                                  *)
(***************************************************************************)
\* a bug that divides by the length of the list instead of the set
recall_score_listlen(actual, pred) ==
    IF Len(actual) = 0
    THEN [num |-> 0, den |-> 1]
    ELSE [num |-> Cardinality(Range(actual) \cap Range(pred)),
          den |-> Len(actual)]

\* def recall_score(actual, pred): the value returned, as the exact fraction
\* num/den; the early `return 0` is the fraction 0/1.
recall_score(actual, pred) ==
    IF Len(actual) = 0
    THEN [num |-> 0, den |-> 1]
    ELSE [num |-> Cardinality(Range(actual) \cap Range(pred)),
          den |-> Cardinality(Range(actual))]


(***************************************************************************)
(* new_products, popular_recommend, imf_recommend (cell 16)                *)
(***************************************************************************)
\* text.split(","): the pieces of a text between its commas
RECURSIVE split_comma(_)
split_comma(text) ==
    IF \A i \in 1..Len(text) : text[i] # Tok(",")
    THEN <<text>>
    ELSE LET c == Min({i \in 1..Len(text) : text[i] = Tok(",")})
         IN  <<SubSeq(text, 1, c - 1)>> \o split_comma(SubSeq(text, c + 1, Len(text)))

\* row["products"][1:-1].strip().split(","): the pieces to convert
product_pieces(text) == split_comma(SubSeq(text, 2, Len(text) - 1))

\* int(p.strip()) raises ValueError unless the piece is one numeral
parse_ok(text) ==
    \A i \in 1..Len(product_pieces(text)) :
        /\ Len(product_pieces(text)[i]) = 1
        /\ product_pieces(text)[i][1].ch = "9"

\* set([int(p.strip()) for p in actual.strip().split(",")])
parse_products(text) ==
    {product_pieces(text)[i][1].n : i \in 1..Len(product_pieces(text))}

\* new_products raises (KeyError, IndexError, ValueError) unless this holds
new_products_ok(row, u_dict, p_dict, user_product_matrix) ==
    /\ parse_ok(row.products)
    /\ row.user_id \in DOMAIN u_dict
    /\ u_dict[row.user_id] < user_product_matrix.nrows
    /\ RowIndices(user_product_matrix, u_dict[row.user_id]) \subseteq DOMAIN p_dict

\* the user's purchase history: the product ids of the stored entries of the
\* user's row
liked_products(row, u_dict, p_dict, user_product_matrix) ==
    {p_dict[i] : i \in RowIndices(user_product_matrix, u_dict[row.user_id])}

\* a bug that returns the whole basket, purchased before or not
new_products_keep_liked(row, u_dict, p_dict, user_product_matrix) ==
    parse_products(row.products)

\* def new_products(row): actual - liked
new_products(row, u_dict, p_dict, user_product_matrix) ==
    parse_products(row.products)
        \ liked_products(row, u_dict, p_dict, user_product_matrix)

\* def popular_recommend(row)
popular_recommend(row, u_dict, p_dict, user_product_matrix, popular_products) ==
    recall_score(SortedSeq(new_products(row, u_dict, p_dict, user_product_matrix)),
                 popular_products)

\* imf_recommend raises unless this holds: new_products succeeds and the user
\* index is a row of the model's user factors
imf_recommend_ok(row, u_dict, p_dict, user_product_matrix, imf_model) ==
    /\ new_products_ok(row, u_dict, p_dict, user_product_matrix)
    /\ u_dict[row.user_id] < imf_model.fit_on.ncols

\* the lists imf_model.recommend may return for the row's user
imf_recommended(row, u_dict, user_product_matrix, imf_model, N, score) ==
    recommend(imf_model.fit_on.nrows, u_dict[row.user_id],
              user_product_matrix, N, score)

\* [p_dict[r[0]] for r in recommended] raises KeyError unless this holds
decode_ok(recommended, p_dict) == Range(recommended) \subseteq DOMAIN p_dict

decode(recommended, p_dict) ==
    [i \in 1..Len(recommended) |-> p_dict[recommended[i]]]

\* def imf_recommend(row), given the list the model recommended
imf_recommend(row, u_dict, p_dict, user_product_matrix, recommended) ==
    recall_score(SortedSeq(new_products(row, u_dict, p_dict, user_product_matrix)),
                 decode(recommended, p_dict))

(***************************************************************************)
(* Constants of the notebook                                               *)
(***************************************************************************)
REBUILD_TEST_DATA == FALSE
REBUILD_MATRIX_DF == TRUE
REBUILD_MATRIX == FALSE
REBUILD_MODEL == FALSE
REBUILD_EVAL_DF == TRUE
\* model_params = {"alpha": 15}
alpha == 15
\* number of recommendations to make for every user
N_REC == 10
\* the user of the example recommendation
user_id == 17
\* subset = 0.2, in tenths
subset_tenths == 2

(***************************************************************************)
(* Files.  A file is [exists, content]; a missing file has no content.     *)
(***************************************************************************)
NoMatrix == [nrows |-> 0, ncols |-> 0, data |-> [q \in {} |-> 0]]
NoModel == [fit_on |-> NoMatrix]

File(c) == [exists |-> TRUE, content |-> c]
NoFrameFile == [exists |-> FALSE, content |-> <<>>]
NoMatrixFile == [exists |-> FALSE, content |-> NoMatrix]
NoModelFile == [exists |-> FALSE, content |-> NoModel]

\* def build_imf: the model pickled to disk.  Of the fitted model the
\* notebook reads only what it was fitted on: the confidence matrix handed
\* to AlternatingLeastSquares.fit (its factor matrices have one row per row
\* and per column of that matrix).
build_imf(prod_user_matrix, a) ==
    [fit_on |-> confidence_matrix(prod_user_matrix, a)]

\* What an earlier run of the notebook over other csv files left on disk.
EarlierRuns ==
    { [orders |-> (1 :> [user_id |-> 1, eval_set |-> "prior"]
                   @@ 2 :> [user_id |-> 1, eval_set |-> "train"]),
       lines |-> << [order_id |-> 1, product_id |-> 196],
                    [order_id |-> 1, product_id |-> 196],
                    [order_id |-> 2, product_id |-> 1] >>],
      [orders |-> (1 :> [user_id |-> 17, eval_set |-> "prior"]
                   @@ 2 :> [user_id |-> 17, eval_set |-> "train"]),
       lines |-> << [order_id |-> 1, product_id |-> 1],
                    [order_id |-> 1, product_id |-> 196],
                    [order_id |-> 2, product_id |-> 196] >>] }

EarlierDisk(e) ==
    LET df == get_user_product_prior_df(e.orders, LinesOf(e.orders, e.lines, "prior"))
        m == build_product_user_matrix(df)
    IN  [test_data |-> File(make_test_data(e.orders, LinesOf(e.orders, e.lines, "train"))),
         matrix_df |-> File(df),
         matrix |-> File(m),
         model |-> File(build_imf(m, alpha)),
         eval |-> File(<<>>)]

EmptyDisk ==
    [test_data |-> NoFrameFile, matrix_df |-> NoFrameFile, matrix |-> NoMatrixFile,
     model |-> NoModelFile, eval |-> NoFrameFile]

FileNames == {"test_data", "matrix_df", "matrix", "model", "eval"}

\* The files a run writes, in the order it writes them.
FileOrder == <<"test_data", "matrix_df", "matrix", "model", "eval">>

\* Which files of an earlier run are on disk: the earlier run stopped after
\* some cell (a prefix of the files), or it completed and one file was
\* deleted since.
PresentSets ==
    {{FileOrder[i] : i \in 1..n} : n \in 0..Len(FileOrder)}
    \cup {FileNames \ {f} : f \in FileNames}

\* the disks that hold some of the files of one earlier run
InitialDisks ==
    {[f \in FileNames |-> IF f \in present THEN EarlierDisk(e)[f] ELSE EmptyDisk[f]] :
        present \in PresentSets, e \in EarlierRuns}

VARIABLES
    \* ---- the notebook ----
    pc,                        \* the cell to run next, "done", "error" or "off"
    df_orders,                 \* orders.csv
    df_order_products_prior,   \* order_products__prior.csv
    df_order_products_train,   \* order_products__train.csv
    disk,                      \* the five data files
    stdout,                    \* the "Creating ..." / "Building ..." lines printed
    df_user_products_test,
    df_user_product_prior,
    product_user_matrix,
    imf_model,
    u_dict,
    p_dict,
    recommendations,
    user_product_matrix,
    popular_products,
    df_eval,
    \* ---- recall_score called on its own ----
    rs_actual,   \* the argument `actual`
    rs_pred,     \* the argument `pred`
    rs_pc,       \* "call" before the call, "done" after it returned, or "off"
    rs_ret,      \* the returned value
    \* ---- build_eval_df applied row by row ----
    ev_pc,       \* "popular", "popular_rows", "imf_rows", "done", "error" or "off"
    ev_N,        \* the number of recommendations per user
    ev_i,        \* the row the running df.apply is at
    ev_calls,    \* the calls of popular_recommend and imf_recommend made so far
    \* ---- model.fit, run twice over the same matrix ----
    fit_pc,      \* "init", "user", "item", "done" or "off"
    fit_run,     \* 1 for the first run of build_imf, 2 for the second
    fit_Cui,     \* the confidence matrix handed to fit (items x users)
    fit_T,       \* the iteration count
    fit_h,       \* the half-step that runs: 2t - 1 the t-th user update, 2t the t-th item update
    fit_X,       \* user factors: user index -> [val, stamp]
    fit_Y,       \* item factors: item index -> [val, stamp]
    fit_todo,    \* the rows of the running half-step not yet handed to a worker
    fit_worker,  \* worker -> the row it solves and the half-step of the task
    fit_trace,   \* the half-steps completed in the run, in order
    fit_result   \* run -> the factors the run returned

nb_vars == <<pc, df_orders, df_order_products_prior, df_order_products_train,
             disk, stdout, df_user_products_test, df_user_product_prior,
             product_user_matrix, imf_model, u_dict, p_dict, recommendations,
             user_product_matrix, popular_products, df_eval>>

rs_vars == <<rs_actual, rs_pred, rs_pc, rs_ret>>

ev_vars == <<ev_pc, ev_N, ev_i, ev_calls>>

fit_vars == <<fit_pc, fit_run, fit_Cui, fit_T, fit_h, fit_X, fit_Y, fit_todo,
              fit_worker, fit_trace, fit_result>>

vars == <<nb_vars, rs_vars, ev_vars, fit_vars>>

NoValue == [num |-> -1, den |-> 1]

(***************************************************************************)
(* The notebook, cell by cell                                              *)
(* Cells 4 and 7 assert figures of the Instacart data (131209 test rows,   *)
(* entry [195, 0] = 10) and cell 8 only displays the sparsity; they have   *)
(* no counterpart on the small data sets of the model and change no state. *)
(***************************************************************************)
NotebookOff ==
    /\ pc = "off"
    /\ df_orders = <<>>
    /\ df_order_products_prior = <<>>
    /\ df_order_products_train = <<>>
    /\ disk = EmptyDisk
    /\ stdout = <<>>
    /\ df_user_products_test = <<>>
    /\ df_user_product_prior = <<>>
    /\ product_user_matrix = NoMatrix
    /\ imf_model = NoModel
    /\ u_dict = <<>>
    /\ p_dict = <<>>
    /\ recommendations = <<>>
    /\ user_product_matrix = NoMatrix
    /\ popular_products = <<>>
    /\ df_eval = <<>>

RecallOff ==
    /\ rs_actual = <<>>
    /\ rs_pred = <<>>
    /\ rs_pc = "off"
    /\ rs_ret = NoValue

EvalOff ==
    /\ ev_pc = "off"
    /\ ev_N = 0
    /\ ev_i = 0
    /\ ev_calls = <<>>

FitOff ==
    /\ fit_pc = "off"
    /\ fit_run = 0
    /\ fit_Cui = NoMatrix
    /\ fit_T = 0
    /\ fit_h = 0
    /\ fit_X = <<>>
    /\ fit_Y = <<>>
    /\ fit_todo = {}
    /\ fit_worker = <<>>
    /\ fit_trace = <<>>
    /\ fit_result = <<>>

\* cell 2: the csv files are read; the disk holds what an earlier run left
NotebookInit ==
    /\ pc = "test_data"
    /\ df_orders \in OrderTables
    /\ \E lines \in LineFiles :
          /\ df_order_products_prior = LinesOf(df_orders, lines, "prior")
          /\ df_order_products_train = LinesOf(df_orders, lines, "train")
    /\ disk \in InitialDisks
    /\ stdout = <<>>
    /\ df_user_products_test = <<>>
    /\ df_user_product_prior = <<>>
    /\ product_user_matrix = NoMatrix
    /\ imf_model = NoModel
    /\ u_dict = <<>>
    /\ p_dict = <<>>
    /\ recommendations = <<>>
    /\ user_product_matrix = NoMatrix
    /\ popular_products = <<>>
    /\ df_eval = <<>>

\* a cell raised: the run stops there
Raise(unchanged) ==
    /\ pc' = "error"
    /\ UNCHANGED unchanged

\* cell 3: the test data
CellTestData ==
    /\ pc = "test_data"
    /\ LET build == REBUILD_TEST_DATA \/ ~disk.test_data.exists
       IN  /\ stdout' = IF build THEN Append(stdout, "Creating test data ...")
                        ELSE stdout
           /\ IF build /\ ~make_test_data_asserts(df_orders, df_order_products_train)
              THEN Raise(<<disk, df_user_products_test>>)
              ELSE /\ disk' = IF build
                              THEN [disk EXCEPT !.test_data =
                                      File(make_test_data(df_orders, df_order_products_train))]
                              ELSE disk
                   /\ df_user_products_test' = disk'.test_data.content
                   /\ pc' = "matrix_df"
    /\ UNCHANGED <<df_orders, df_order_products_prior, df_order_products_train,
                   df_user_product_prior, product_user_matrix, imf_model, u_dict,
                   p_dict, recommendations, user_product_matrix, popular_products,
                   df_eval, rs_vars, ev_vars, fit_vars>>

\* cell 5: the dataframe of users and their prior products
CellMatrixDf ==
    /\ pc = "matrix_df"
    /\ LET build == REBUILD_MATRIX_DF \/ ~disk.matrix_df.exists
       IN  /\ stdout' = IF build
                        THEN Append(stdout, "Creating prior user-product data frame ...")
                        ELSE stdout
           /\ disk' = IF build
                      THEN [disk EXCEPT !.matrix_df =
                              File(get_user_product_prior_df(df_orders, df_order_products_prior))]
                      ELSE disk
           /\ df_user_product_prior' = disk'.matrix_df.content
           /\ pc' = "matrix"
    /\ UNCHANGED <<df_orders, df_order_products_prior, df_order_products_train,
                   df_user_products_test, product_user_matrix, imf_model, u_dict,
                   p_dict, recommendations, user_product_matrix, popular_products,
                   df_eval, rs_vars, ev_vars, fit_vars>>

\* a bug that rebuilds the matrix whether or not the file exists
CellMatrix_always_build ==
    /\ pc = "matrix"
    /\ stdout' = Append(stdout, "Creating product user matrix ...")
    /\ IF Len(df_user_product_prior) = 0
       THEN Raise(<<disk, product_user_matrix>>)
       ELSE /\ disk' = [disk EXCEPT !.matrix =
                          File(build_product_user_matrix(df_user_product_prior))]
            /\ product_user_matrix' = disk'.matrix.content
            /\ pc' = "model"
    /\ UNCHANGED <<df_orders, df_order_products_prior, df_order_products_train,
                   df_user_products_test, df_user_product_prior, imf_model, u_dict,
                   p_dict, recommendations, user_product_matrix, popular_products,
                   df_eval, rs_vars, ev_vars, fit_vars>>

\* cell 6: the product x user utility matrix; coo_matrix raises ValueError on
\* a frame without rows
CellMatrix ==
    /\ pc = "matrix"
    /\ LET build == REBUILD_MATRIX \/ ~disk.matrix.exists
       IN  /\ stdout' = IF build THEN Append(stdout, "Creating product user matrix ...")
                        ELSE stdout
           /\ IF build /\ Len(df_user_product_prior) = 0
              THEN Raise(<<disk, product_user_matrix>>)
              ELSE /\ disk' = IF build
                              THEN [disk EXCEPT !.matrix =
                                      File(build_product_user_matrix(df_user_product_prior))]
                              ELSE disk
                   /\ product_user_matrix' = disk'.matrix.content
                   /\ pc' = "model"
    /\ UNCHANGED <<df_orders, df_order_products_prior, df_order_products_train,
                   df_user_products_test, df_user_product_prior, imf_model, u_dict,
                   p_dict, recommendations, user_product_matrix, popular_products,
                   df_eval, rs_vars, ev_vars, fit_vars>>

\* cell 9: the model
CellModel ==
    /\ pc = "model"
    /\ LET build == REBUILD_MODEL \/ ~disk.model.exists
       IN  /\ stdout' = IF build THEN Append(stdout, "Building IMF model with alpha: 15 ...")
                        ELSE stdout
           /\ disk' = IF build
                      THEN [disk EXCEPT !.model = File(build_imf(product_user_matrix, alpha))]
                      ELSE disk
           /\ imf_model' = disk'.model.content
           /\ pc' = "dicts"
    /\ UNCHANGED <<df_orders, df_order_products_prior, df_order_products_train,
                   df_user_products_test, df_user_product_prior, product_user_matrix,
                   u_dict, p_dict, recommendations, user_product_matrix,
                   popular_products, df_eval, rs_vars, ev_vars, fit_vars>>

\* cell 10: u_dict maps user_id to user index, p_dict product index to product id
CellDicts ==
    /\ pc = "dicts"
    /\ LET ucat == cat_categories(df_user_product_prior, "user_id")
           pcat == cat_categories(df_user_product_prior, "product_id")
       IN  /\ u_dict' = [uid \in Range(ucat) |-> IndexOf(ucat, uid) - 1]
           /\ p_dict' = [i \in 0..(Len(pcat) - 1) |-> pcat[i + 1]]
    /\ pc' = "recommend"
    /\ UNCHANGED <<df_orders, df_order_products_prior, df_order_products_train, disk,
                   stdout, df_user_products_test, df_user_product_prior,
                   product_user_matrix, imf_model, recommendations,
                   user_product_matrix, popular_products, df_eval, rs_vars, ev_vars, fit_vars>>

\* the scores a model may give to the items it was fitted on
Scores(model) == [0..(model.fit_on.nrows - 1) -> 1..MaxScore]

\* cell 11: recommend items for user 17
CellRecommend ==
    /\ pc = "recommend"
    /\ IF \/ user_id \notin DOMAIN u_dict
          \/ u_dict[user_id] >= imf_model.fit_on.ncols
          \/ u_dict[user_id] >= Transpose(product_user_matrix).nrows
       THEN Raise(<<recommendations>>)
       ELSE /\ \E score \in Scores(imf_model) :
                 recommendations' \in recommend(imf_model.fit_on.nrows, u_dict[user_id],
                                                Transpose(product_user_matrix), N_REC, score)
            /\ pc' = "print"
    /\ UNCHANGED <<df_orders, df_order_products_prior, df_order_products_train, disk,
                   stdout, df_user_products_test, df_user_product_prior,
                   product_user_matrix, imf_model, u_dict, p_dict,
                   user_product_matrix, popular_products, df_eval, rs_vars, ev_vars, fit_vars>>

\* cell 12: print the products user 17 bought and the recommended ones
CellPrint ==
    /\ pc = "print"
    /\ LET row == SelectSeq(df_user_products_test, LAMBDA r : r.user_id = user_id)
       IN  IF \/ Len(row) = 0
              \/ ~parse_ok(row[1].products)
              \/ ~decode_ok(recommendations, p_dict)
           THEN pc' = "error"
           ELSE pc' = "popular"
    /\ UNCHANGED <<df_orders, df_order_products_prior, df_order_products_train, disk,
                   stdout, df_user_products_test, df_user_product_prior,
                   product_user_matrix, imf_model, u_dict, p_dict, recommendations,
                   user_product_matrix, popular_products, df_eval, rs_vars, ev_vars, fit_vars>>

\* cells 13 and 14: the transposed matrix and the popular products.
\* df_merged_order_products_prior is the left merge of the prior order lines
\* with products.csv, which has one row per product id: one row per line.
CellPopular ==
    /\ pc = "popular"
    /\ user_product_matrix' = Transpose(product_user_matrix)
    /\ popular_products' \in get_k_popular(N_REC, df_order_products_prior)
    /\ pc' = "eval"
    /\ UNCHANGED <<df_orders, df_order_products_prior, df_order_products_train, disk,
                   stdout, df_user_products_test, df_user_product_prior,
                   product_user_matrix, imf_model, u_dict, p_dict, recommendations,
                   df_eval, rs_vars, ev_vars, fit_vars>>

\* df_eval.sample(n=int(len(df_eval) * subset), random_state=7): the row
\* numbers that may be drawn
sample(df, tenths) ==
    {S \in SUBSET (1..Len(df)) : Cardinality(S) = (Len(df) * tenths) \div 10}

\* def build_eval_df: the rows written to the eval file for the sampled rows
\* S, given the list the model recommended for each of them
build_eval_df(df, S, rec) ==
    LET rows == SortedSeq(S)
    IN  [i \in 1..Len(rows) |->
            [user_id |-> df[rows[i]].user_id,
             products |-> df[rows[i]].products,
             popular_score |-> popular_recommend(df[rows[i]], u_dict, p_dict,
                                   user_product_matrix, popular_products),
             imf_score |-> imf_recommend(df[rows[i]], u_dict, p_dict,
                               user_product_matrix, rec[rows[i]])]]

\* cell 16: the dataframe with the recall values of the baseline and the model
CellEval ==
    /\ pc = "eval"
    /\ LET build == REBUILD_EVAL_DF \/ ~disk.eval.exists
           df == df_user_products_test
       IN  /\ stdout' = IF build THEN Append(stdout, "Building dataframe with recall values ...")
                        ELSE stdout
           /\ IF ~build
              THEN /\ df_eval' = disk.eval.content
                   /\ pc' = "results"
                   /\ UNCHANGED disk
              ELSE \E S \in sample(df, subset_tenths) :
                     IF \E i \in S :
                           ~imf_recommend_ok(df[i], u_dict, p_dict,
                                             user_product_matrix, imf_model)
                     THEN Raise(<<disk, df_eval>>)
                     ELSE \E score \in [S -> Scores(imf_model)] :
                          \E rec \in [S -> SeqsUpTo(0..(imf_model.fit_on.nrows - 1), N_REC)] :
                            /\ \A i \in S :
                                  rec[i] \in imf_recommended(df[i], u_dict,
                                                 user_product_matrix, imf_model,
                                                 N_REC, score[i])
                            /\ IF \E i \in S : ~decode_ok(rec[i], p_dict)
                               THEN Raise(<<disk, df_eval>>)
                               ELSE /\ disk' = [disk EXCEPT !.eval =
                                                   File(build_eval_df(df, S, rec))]
                                    /\ df_eval' = disk'.eval.content
                                    /\ pc' = "results"
    /\ UNCHANGED <<df_orders, df_order_products_prior, df_order_products_train,
                   df_user_products_test, df_user_product_prior, product_user_matrix,
                   imf_model, u_dict, p_dict, recommendations, user_product_matrix,
                   popular_products, rs_vars, ev_vars, fit_vars>>

\* cell 17: the mean recall scores are printed
CellResults ==
    /\ pc = "results"
    /\ pc' = "done"
    /\ UNCHANGED <<df_orders, df_order_products_prior, df_order_products_train, disk,
                   stdout, df_user_products_test, df_user_product_prior,
                   product_user_matrix, imf_model, u_dict, p_dict, recommendations,
                   user_product_matrix, popular_products, df_eval, rs_vars, ev_vars, fit_vars>>

NotebookNext ==
    \/ CellTestData
    \/ CellMatrixDf
    \/ CellMatrix
    \/ CellModel
    \/ CellDicts
    \/ CellRecommend
    \/ CellPrint
    \/ CellPopular
    \/ CellEval
    \/ CellResults

Init == NotebookInit /\ RecallOff /\ EvalOff /\ FitOff

Next == NotebookNext

\* the notebook run from top to bottom
Spec == Init /\ [][Next]_vars

(***************************************************************************)
(* Properties of the notebook run                                          *)
(***************************************************************************)
Printed(msg) == msg \in Range(stdout)

MatrixBuilt == Printed("Creating product user matrix ...")
ModelBuilt == Printed("Building IMF model with alpha: 15 ...")

AfterCell(cells) == pc \in cells

\* the number of prior order lines of user u for product p: the raw
\* interaction records of the pair, each counting one purchase
RawCount(u, p) ==
    Cardinality({i \in 1..Len(df_order_products_prior) :
        /\ df_order_products_prior[i].product_id = p
        /\ df_orders[df_order_products_prior[i].order_id].user_id = u
        /\ df_orders[df_order_products_prior[i].order_id].eval_set = "prior"})

\* the users and products that have a raw interaction record
SeenUsers == {u \in UserIds : \E p \in ProductIds : RawCount(u, p) > 0}
SeenProducts == {p \in ProductIds : \E u \in UserIds : RawCount(u, p) > 0}

\* the dense index of an id: the number of smaller ids that occur
DenseIndex(S, x) == Cardinality({y \in S : y < x})

\* C1: every confidence value handed to the ALS fit equals 1 + alpha * r for
\* the raw count r of its (item, user) entry, and so is greater than 1.
C1_ConfidenceIsOnePlusAlphaR ==
    (AfterCell({"dicts"}) /\ ModelBuilt) =>
        \A q \in DOMAIN product_user_matrix.data :
            /\ q \in DOMAIN imf_model.fit_on.data
            /\ imf_model.fit_on.data[q] = 1 + alpha * product_user_matrix.data[q]
            /\ imf_model.fit_on.data[q] > 1

\* C3: for users and for items, the codes that place the entries in the
\* utility matrix (and u_dict) and the decoding (categories, p_dict) are a
\* bijection between the distinct raw ids and [0, count): decoding an
\* encoded id gives the id back, and every index in [0, count) is the code
\* of exactly one id.
C3_IndexMapsAreBijections ==
    AfterCell({"recommend", "print", "popular", "eval", "results", "done"}) =>
        LET df == df_user_product_prior
            ucat == cat_categories(df, "user_id")
            pcat == cat_categories(df, "product_id")
            uids == {df[i].user_id : i \in 1..Len(df)}
            pids == {df[i].product_id : i \in 1..Len(df)}
        IN  /\ DOMAIN u_dict = uids
            /\ \A u \in uids : /\ u_dict[u] = cat_code(ucat, u)
                               /\ ucat[u_dict[u] + 1] = u
            /\ {u_dict[u] : u \in uids} = 0..(Cardinality(uids) - 1)
            /\ \A u, v \in uids : u_dict[u] = u_dict[v] => u = v
            /\ DOMAIN p_dict = 0..(Cardinality(pids) - 1)
            /\ \A p \in pids : /\ cat_code(pcat, p) \in DOMAIN p_dict
                               /\ p_dict[cat_code(pcat, p)] = p
            /\ \A i, j \in DOMAIN p_dict : p_dict[i] = p_dict[j] => i = j
            /\ {p_dict[i] : i \in DOMAIN p_dict} = pids
            /\ MatrixBuilt =>
                  /\ product_user_matrix.nrows = Cardinality(pids)
                  /\ product_user_matrix.ncols = Cardinality(uids)
                  /\ DOMAIN product_user_matrix.data =
                        {<<cat_code(pcat, df[i].product_id), u_dict[df[i].user_id]>> :
                            i \in 1..Len(df)}

C3_Witness ==
    /\ AfterCell({"recommend"})
    /\ MatrixBuilt
    /\ DOMAIN u_dict = UserIds
    /\ DOMAIN p_dict = 0..(Cardinality(ProductIds) - 1)
    /\ Cardinality(DOMAIN product_user_matrix.data) >= 2

\* C5: the utility matrix the notebook builds holds, for every (user, item)
\* pair with a raw interaction record, the number of the pair's records (each
\* record counts one purchase, so duplicates are summed), at the pair's
\* dense indices, and it holds no entry for a pair without a record.
C5_MatrixHoldsSummedCounts ==
    (AfterCell({"model"}) /\ MatrixBuilt) =>
        /\ \A u \in UserIds, p \in ProductIds :
              LET q == <<DenseIndex(SeenProducts, p), DenseIndex(SeenUsers, u)>>
              IN  IF RawCount(u, p) > 0
                  THEN /\ q \in DOMAIN product_user_matrix.data
                       /\ product_user_matrix.data[q] = RawCount(u, p)
                  ELSE ~(/\ u \in SeenUsers
                         /\ p \in SeenProducts
                         /\ q \in DOMAIN product_user_matrix.data)
        /\ \A q \in DOMAIN product_user_matrix.data :
              \E u \in SeenUsers, p \in SeenProducts :
                  q = <<DenseIndex(SeenProducts, p), DenseIndex(SeenUsers, u)>>

C5_Witness ==
    /\ AfterCell({"model"})
    /\ MatrixBuilt
    /\ \E q \in DOMAIN product_user_matrix.data : product_user_matrix.data[q] >= 2
    /\ \E u \in SeenUsers, p \in SeenProducts : RawCount(u, p) = 0

\* the guarded cells: the cell, its file, its REBUILD_* constant
Guards ==
    { [cell |-> "test_data", file |-> "test_data", rebuild |-> REBUILD_TEST_DATA],
      [cell |-> "matrix_df", file |-> "matrix_df", rebuild |-> REBUILD_MATRIX_DF],
      [cell |-> "matrix", file |-> "matrix", rebuild |-> REBUILD_MATRIX],
      [cell |-> "model", file |-> "model", rebuild |-> REBUILD_MODEL],
      [cell |-> "eval", file |-> "eval", rebuild |-> REBUILD_EVAL_DF] }

\* the variable a guarded cell loads its file into, in the next state
Loaded(cell) ==
    CASE cell = "test_data" -> df_user_products_test'
      [] cell = "matrix_df" -> df_user_product_prior'
      [] cell = "matrix" -> product_user_matrix'
      [] cell = "model" -> imf_model'
      [] cell = "eval" -> df_eval'

\* C9: a guarded cell that completes has run its build step (and written the
\* file) exactly if the file was missing or its REBUILD_* constant is True;
\* otherwise the file is as it was; no other file changes; and the value
\* used afterwards is the content of the file.
C9_GuardStep ==
    \A g \in Guards :
        (pc = g.cell /\ pc' # g.cell /\ pc' # "error") =>
            /\ (stdout' # stdout) <=> (g.rebuild \/ ~disk[g.file].exists)
            /\ (stdout' # stdout) => disk'[g.file].exists
            /\ (stdout' = stdout) => disk'[g.file] = disk[g.file]
            /\ \A f \in FileNames \ {g.file} : disk'[f] = disk[f]
            /\ Loaded(g.cell) = disk'[g.file].content

C9_RebuildIffMissingOrForced == [][C9_GuardStep]_vars

C9_Witness ==
    /\ pc = "done"
    /\ Printed("Creating test data ...")
    /\ ~MatrixBuilt
    /\ ~ModelBuilt
    /\ product_user_matrix # build_product_user_matrix(df_user_product_prior)

(***************************************************************************)
(* recall_score called on two lists                                        *)
(***************************************************************************)
\* the lists of predictions: both predictors return lists without repetition
PredLists ==
    {l \in SeqsUpTo(1..MaxItem, MaxPredLen) :
        \A i, j \in 1..Len(l) : i # j => l[i] # l[j]}

RecallInit ==
    /\ NotebookOff
    /\ EvalOff
    /\ FitOff
    /\ rs_actual \in SeqsUpTo(1..MaxItem, MaxActualLen)
    /\ rs_pred \in PredLists
    /\ rs_pc = "call"
    /\ rs_ret = NoValue

RecallScore ==
    /\ rs_pc = "call"
    /\ rs_ret' = recall_score(rs_actual, rs_pred)
    /\ rs_pc' = "done"
    /\ UNCHANGED <<rs_actual, rs_pred, nb_vars, ev_vars, fit_vars>>

RecallNext == RecallScore

SpecRecall == RecallInit /\ [][RecallNext]_vars

\* C2: recall_score(actual, pred) is |actual n pred| / |actual| over the sets
\* of distinct elements when actual is not empty and 0 when it is empty; so
\* it is 1 when pred holds the elements of a non-empty actual, it is 2/3 for
\* actual = [1,2,3], pred = [2,3,4,5], and it always lies in [0, 1].
C2_RecallContract ==
    rs_pc = "done" =>
        LET A == Range(rs_actual)
            P == Range(rs_pred)
        IN  /\ rs_ret.den > 0
            /\ A = {} => rs_ret.num = 0
            /\ A # {} => rs_ret.num * Cardinality(A) = Cardinality(A \cap P) * rs_ret.den
            /\ (A # {} /\ A = P) => rs_ret.num = rs_ret.den
            /\ (rs_actual = <<1, 2, 3>> /\ rs_pred = <<2, 3, 4, 5>>)
                  => rs_ret.num * 3 = 2 * rs_ret.den
            /\ 0 <= rs_ret.num
            /\ rs_ret.num <= rs_ret.den

C2_Witness ==
    /\ rs_pc = "done"
    /\ rs_actual = <<1, 2, 3>>
    /\ rs_pred = <<2, 3, 4, 5>>
    /\ rs_ret.num * 3 = 2 * rs_ret.den

(***************************************************************************)
(* build_eval_df applied row by row: popular_recommend over all rows of    *)
(* the test data, then imf_recommend over all rows (subset=None).  The     *)
(* data set has a prior and a train order of each user; the frames, the    *)
(* matrix, the model and the dicts are those the cells build from it.      *)
(***************************************************************************)
EvalOrders ==
    (1 :> [user_id |-> 1, eval_set |-> "prior"]
     @@ 2 :> [user_id |-> 17, eval_set |-> "prior"]
     @@ 3 :> [user_id |-> 1, eval_set |-> "train"]
     @@ 4 :> [user_id |-> 17, eval_set |-> "train"])

EvalLineFiles ==
    {ls \in LinesFrom(DOMAIN EvalOrders, 1, MaxEvalLines) :
        /\ make_test_data_asserts(EvalOrders, LinesOf(EvalOrders, ls, "train"))
        /\ Len(LinesOf(EvalOrders, ls, "prior")) > 0}

EvalInit ==
    /\ RecallOff
    /\ FitOff
    /\ pc = "off"
    /\ disk = EmptyDisk
    /\ stdout = <<>>
    /\ recommendations = <<>>
    /\ df_eval = <<>>
    /\ popular_products = <<>>
    /\ df_orders = EvalOrders
    /\ \E lines \in EvalLineFiles :
          /\ df_order_products_prior = LinesOf(df_orders, lines, "prior")
          /\ df_order_products_train = LinesOf(df_orders, lines, "train")
    /\ df_user_products_test = make_test_data(df_orders, df_order_products_train)
    /\ df_user_product_prior = get_user_product_prior_df(df_orders, df_order_products_prior)
    /\ product_user_matrix = build_product_user_matrix(df_user_product_prior)
    /\ user_product_matrix = Transpose(product_user_matrix)
    /\ imf_model = build_imf(product_user_matrix, alpha)
    /\ u_dict = [uid \in Range(cat_categories(df_user_product_prior, "user_id")) |->
                    IndexOf(cat_categories(df_user_product_prior, "user_id"), uid) - 1]
    /\ p_dict = [i \in 0..(Len(cat_categories(df_user_product_prior, "product_id")) - 1) |->
                    cat_categories(df_user_product_prior, "product_id")[i + 1]]
    /\ ev_pc = "popular"
    /\ ev_N \in (1..MaxN) \cup {N_REC}
    /\ ev_i = 0
    /\ ev_calls = <<>>

ev_unchanged ==
    <<pc, df_orders, df_order_products_prior, df_order_products_train, disk, stdout,
      df_user_products_test, df_user_product_prior, product_user_matrix, imf_model,
      u_dict, p_dict, recommendations, user_product_matrix, rs_vars, fit_vars>>

\* popular_products = get_k_popular(N, df_merged_order_products_prior)
EvalPopular ==
    /\ ev_pc = "popular"
    /\ popular_products' \in get_k_popular(ev_N, df_order_products_prior)
    /\ ev_pc' = "popular_rows"
    /\ ev_i' = 1
    /\ UNCHANGED <<ev_N, ev_calls, df_eval, ev_unchanged>>

\* the next df.apply starts, or all rows are done
NextPhase(phase, after) ==
    IF ev_i < Len(df_user_products_test)
    THEN ev_pc' = phase /\ ev_i' = ev_i + 1
    ELSE ev_pc' = after /\ ev_i' = 1

\* df_eval.apply(popular_recommend, axis=1), one row
EvalPopularRow ==
    /\ ev_pc = "popular_rows"
    /\ ev_i <= Len(df_user_products_test)
    /\ LET row == df_user_products_test[ev_i]
       IN  IF ~new_products_ok(row, u_dict, p_dict, user_product_matrix)
           THEN /\ ev_pc' = "error"
                /\ UNCHANGED <<ev_i, ev_calls>>
           ELSE /\ ev_calls' = Append(ev_calls,
                     [fn |-> "popular_recommend",
                      user_id |-> row.user_id,
                      actual |-> new_products(row, u_dict, p_dict, user_product_matrix),
                      recommended |-> <<>>,
                      pred |-> popular_products,
                      ret |-> popular_recommend(row, u_dict, p_dict,
                                  user_product_matrix, popular_products)])
                /\ NextPhase("popular_rows", "imf_rows")
    /\ UNCHANGED <<ev_N, popular_products, df_eval, ev_unchanged>>

\* df_eval.apply(imf_recommend, axis=1), one row
EvalImfRow ==
    /\ ev_pc = "imf_rows"
    /\ ev_i <= Len(df_user_products_test)
    /\ LET row == df_user_products_test[ev_i]
       IN  IF ~imf_recommend_ok(row, u_dict, p_dict, user_product_matrix, imf_model)
           THEN /\ ev_pc' = "error"
                /\ UNCHANGED <<ev_i, ev_calls>>
           ELSE \E score \in Scores(imf_model) :
                \E rec \in imf_recommended(row, u_dict, user_product_matrix,
                                           imf_model, ev_N, score) :
                   IF ~decode_ok(rec, p_dict)
                   THEN /\ ev_pc' = "error"
                        /\ UNCHANGED <<ev_i, ev_calls>>
                   ELSE /\ ev_calls' = Append(ev_calls,
                             [fn |-> "imf_recommend",
                              user_id |-> row.user_id,
                              actual |-> new_products(row, u_dict, p_dict,
                                             user_product_matrix),
                              recommended |-> rec,
                              pred |-> decode(rec, p_dict),
                              ret |-> imf_recommend(row, u_dict, p_dict,
                                          user_product_matrix, rec)])
                        /\ NextPhase("imf_rows", "write")
    /\ UNCHANGED <<ev_N, popular_products, df_eval, ev_unchanged>>

\* the score columns of one user
ScoreOf(fn, uid) ==
    LET c == SelectSeq(ev_calls, LAMBDA r : r.fn = fn /\ r.user_id = uid)
    IN  c[1].ret

\* df_eval.to_csv(filepath)
EvalWrite ==
    /\ ev_pc = "write"
    /\ df_eval' = [i \in 1..Len(df_user_products_test) |->
                     [user_id |-> df_user_products_test[i].user_id,
                      products |-> df_user_products_test[i].products,
                      popular_score |-> ScoreOf("popular_recommend",
                                            df_user_products_test[i].user_id),
                      imf_score |-> ScoreOf("imf_recommend",
                                        df_user_products_test[i].user_id)]]
    /\ ev_pc' = "done"
    /\ UNCHANGED <<ev_N, ev_i, ev_calls, popular_products, ev_unchanged>>

EvalNext ==
    \/ EvalPopular
    \/ EvalPopularRow
    \/ EvalImfRow
    \/ EvalWrite

SpecEval == EvalInit /\ [][EvalNext]_vars

CallsOf(fn) == {i \in 1..Len(ev_calls) : ev_calls[i].fn = fn}

\* history(u): the raw ids of the items with a stored entry in u's row of the
\* user-by-item matrix passed to recommend
history(uid) ==
    {p_dict[i] : i \in RowIndices(user_product_matrix, u_dict[uid])}

\* C4: for every user the list the model recommends, with the user's row of
\* the user-by-item matrix as exclusion set, holds no item the user
\* purchased before: result n history(u) = {}.
C4_RecommendationExcludesHistory ==
    \A c \in CallsOf("imf_recommend") :
        /\ Range(ev_calls[c].recommended)
              \cap RowIndices(user_product_matrix, u_dict[ev_calls[c].user_id]) = {}
        /\ Range(ev_calls[c].pred) \cap history(ev_calls[c].user_id) = {}

C4_Witness ==
    \E c \in CallsOf("imf_recommend") :
        /\ history(ev_calls[c].user_id) # {}
        /\ Len(ev_calls[c].recommended) = 1
        /\ \E d \in CallsOf("imf_recommend") :
              /\ ev_calls[d].user_id # ev_calls[c].user_id
              /\ Cardinality(history(ev_calls[d].user_id)) = 1
              /\ ev_N = 1

\* the total interaction count of a product over the training set
TotalCount(p) ==
    Cardinality({i \in 1..Len(df_order_products_prior) :
                    df_order_products_prior[i].product_id = p})

TrainedProducts == {p \in ProductIds : TotalCount(p) > 0}

\* C6: the popularity baseline is one list of the N items with the highest
\* total interaction count over the training set, by descending count; the
\* same list is the prediction for every evaluated user, so an item that is
\* strictly the most frequent is first in every baseline prediction.
C6_PopularBaseline ==
    (ev_pc \notin {"off", "popular"}) =>
        LET pop == popular_products
        IN  /\ Len(pop) = IF ev_N < Cardinality(TrainedProducts)
                          THEN ev_N ELSE Cardinality(TrainedProducts)
            /\ Range(pop) \subseteq TrainedProducts
            /\ \A i, j \in 1..Len(pop) : i < j =>
                  /\ pop[i] # pop[j]
                  /\ TotalCount(pop[i]) >= TotalCount(pop[j])
            /\ \A p \in TrainedProducts \ Range(pop) :
                  \A i \in 1..Len(pop) : TotalCount(pop[i]) >= TotalCount(p)
            /\ \A c \in CallsOf("popular_recommend") :
                  /\ ev_calls[c].pred = pop
                  /\ \A p \in TrainedProducts :
                        (\A q \in TrainedProducts \ {p} : TotalCount(p) > TotalCount(q))
                            => ev_calls[c].pred[1] = p

C6_Witness ==
    /\ ev_pc = "done"
    /\ Cardinality(CallsOf("popular_recommend")) = 2
    /\ Cardinality(TrainedProducts) = 2
    /\ Len(popular_products) = 1
    /\ \A q \in TrainedProducts \ {popular_products[1]} :
          TotalCount(popular_products[1]) > TotalCount(q)

(***************************************************************************)
(* model.fit (cell 9, build_imf): AlternatingLeastSquares over the         *)
(* confidence matrix.  The notebook only calls fit; the alternation, the   *)
(* per-row solves and their workers are those of the ALS engine the call   *)
(* delegates to.  A factor row is kept as the expression that computed     *)
(* it: the initial draw, or the solve of a row against the fixed factors   *)
(* it read.  Each row also carries the half-step that wrote it.            *)
(***************************************************************************)
FitLineFiles ==
    { << [order_id |-> 1, product_id |-> 1],
         [order_id |-> 1, product_id |-> 196],
         [order_id |-> 2, product_id |-> 196] >>,
      << [order_id |-> 1, product_id |-> 196],
         [order_id |-> 1, product_id |-> 196],
         [order_id |-> 2, product_id |-> 1] >>,
      << [order_id |-> 1, product_id |-> 1] >> }

\* the matrices build_imf hands to fit
FitInputs ==
    {confidence_matrix(
         build_product_user_matrix(
             get_user_product_prior_df(EvalOrders, LinesOf(EvalOrders, ls, "prior"))),
         alpha) : ls \in FitLineFiles}

Workers == 1..MaxWorkers
Idle == [busy |-> FALSE, row |-> 0, h |-> 0]

IsUserStep(h) == h % 2 = 1

FitUsers == 0..(fit_Cui.ncols - 1)
FitItems == 0..(fit_Cui.nrows - 1)

\* the value at a position of the confidence matrix, 0 where nothing is stored
ConfAt(i, u) ==
    IF <<i, u>> \in DOMAIN fit_Cui.data THEN fit_Cui.data[<<i, u>>] ELSE 0

\* a factor row as first drawn
InitFactor(seed, side, r) ==
    [op |-> "init", side |-> side, row |-> r, seed |-> seed, conf |-> <<>>, fixed |-> <<>>]

\* the factor row that solving row r against the fixed factors gives
SolveRow(side, r, F) ==
    [op |-> "solve", side |-> side, row |-> r, seed |-> 0,
     conf |-> IF side = "user"
              THEN [k \in 1..fit_Cui.nrows |-> ConfAt(k - 1, r)]
              ELSE [k \in 1..fit_Cui.ncols |-> ConfAt(r, k - 1)],
     fixed |-> [k \in 1..Cardinality(DOMAIN F) |-> F[k - 1].val]]

Factors(M) == [r \in DOMAIN M |-> M[r].val]

FitInit ==
    /\ NotebookOff
    /\ RecallOff
    /\ EvalOff
    /\ fit_pc = "init"
    /\ fit_run = 1
    /\ fit_Cui \in FitInputs
    /\ fit_T \in 1..MaxIterations
    /\ fit_h = 0
    /\ fit_X = <<>>
    /\ fit_Y = <<>>
    /\ fit_todo = {}
    /\ fit_worker = [w \in Workers |-> Idle]
    /\ fit_trace = <<>>
    /\ fit_result = <<>>

fit_unchanged == <<nb_vars, rs_vars, ev_vars>>

\* model = AlternatingLeastSquares(); model.fit(...): no seed is passed and
\* the notebook seeds no generator, so the factors start from whatever state
\* the random generator is in
FitInitFactors ==
    /\ fit_pc = "init"
    /\ \E seed \in 1..MaxSeed :
          /\ fit_X' = [u \in FitUsers |-> [val |-> InitFactor(seed, "user", u), stamp |-> 0]]
          /\ fit_Y' = [i \in FitItems |-> [val |-> InitFactor(seed, "item", i), stamp |-> 0]]
    /\ fit_h' = 1
    /\ fit_pc' = "user"
    /\ fit_todo' = FitUsers
    /\ fit_trace' = <<>>
    /\ UNCHANGED <<fit_run, fit_Cui, fit_T, fit_worker, fit_result, fit_unchanged>>

\* an idle worker is handed a row of the running half-step
FitTake(w) ==
    /\ fit_pc \in {"user", "item"}
    /\ ~fit_worker[w].busy
    /\ \E r \in fit_todo :
          /\ fit_worker' = [fit_worker EXCEPT ![w] = [busy |-> TRUE, row |-> r, h |-> fit_h]]
          /\ fit_todo' = fit_todo \ {r}
    /\ UNCHANGED <<fit_pc, fit_run, fit_Cui, fit_T, fit_h, fit_X, fit_Y, fit_trace,
                   fit_result, fit_unchanged>>

\* the worker solves its row against the fixed factor matrix as it is now and
\* writes the row of the output factor matrix
FitSolve(w) ==
    /\ fit_worker[w].busy
    /\ LET t == fit_worker[w]
       IN  IF IsUserStep(t.h)
           THEN /\ fit_X' = [fit_X EXCEPT ![t.row] =
                               [val |-> SolveRow("user", t.row, fit_Y), stamp |-> t.h]]
                /\ UNCHANGED fit_Y
           ELSE /\ fit_Y' = [fit_Y EXCEPT ![t.row] =
                               [val |-> SolveRow("item", t.row, fit_X), stamp |-> t.h]]
                /\ UNCHANGED fit_X
    /\ fit_worker' = [fit_worker EXCEPT ![w] = Idle]
    /\ UNCHANGED <<fit_pc, fit_run, fit_Cui, fit_T, fit_h, fit_todo, fit_trace,
                   fit_result, fit_unchanged>>

\* a bug that starts the next half-step once every row is handed out, without
\* waiting for the workers that still solve
FitBarrier_nowait ==
    /\ fit_pc \in {"user", "item"}
    /\ fit_todo = {}
    /\ fit_h < 2 * fit_T
    /\ fit_h' = fit_h + 1
    /\ fit_pc' = IF fit_pc = "user" THEN "item" ELSE "user"
    /\ fit_todo' = IF fit_pc = "user" THEN FitItems ELSE FitUsers
    /\ fit_trace' = Append(fit_trace, fit_pc)
    /\ UNCHANGED <<fit_run, fit_Cui, fit_T, fit_X, fit_Y, fit_worker, fit_result,
                   fit_unchanged>>

\* the half-step boundary: all rows are solved, the next half-step begins
FitBarrier ==
    /\ fit_pc \in {"user", "item"}
    /\ fit_todo = {}
    /\ \A w \in Workers : ~fit_worker[w].busy
    /\ fit_h < 2 * fit_T
    /\ fit_h' = fit_h + 1
    /\ fit_pc' = IF fit_pc = "user" THEN "item" ELSE "user"
    /\ fit_todo' = IF fit_pc = "user" THEN FitItems ELSE FitUsers
    /\ fit_trace' = Append(fit_trace, fit_pc)
    /\ UNCHANGED <<fit_run, fit_Cui, fit_T, fit_X, fit_Y, fit_worker, fit_result,
                   fit_unchanged>>

\* a bug that adds a convergence test: fit returns after any item update
FitReturn_converged ==
    /\ fit_pc = "item"
    /\ fit_todo = {}
    /\ \A w \in Workers : ~fit_worker[w].busy
    /\ fit_trace' = Append(fit_trace, fit_pc)
    /\ fit_result' = (fit_run :> [user_factors |-> fit_X, item_factors |-> fit_Y,
                                  trace |-> fit_trace']) @@ fit_result
    /\ IF fit_run = 1
       THEN fit_run' = 2 /\ fit_pc' = "init"
       ELSE fit_run' = fit_run /\ fit_pc' = "done"
    /\ UNCHANGED <<fit_Cui, fit_T, fit_h, fit_X, fit_Y, fit_todo, fit_worker,
                   fit_unchanged>>

\* fit returns after the last item update; build_imf pickles the model.  The
\* build is then run a second time over the same matrix.
FitReturn ==
    /\ fit_pc = "item"
    /\ fit_todo = {}
    /\ \A w \in Workers : ~fit_worker[w].busy
    /\ fit_h = 2 * fit_T
    /\ fit_trace' = Append(fit_trace, fit_pc)
    /\ fit_result' = (fit_run :> [user_factors |-> fit_X, item_factors |-> fit_Y,
                                  trace |-> fit_trace']) @@ fit_result
    /\ IF fit_run = 1
       THEN fit_run' = 2 /\ fit_pc' = "init"
       ELSE fit_run' = fit_run /\ fit_pc' = "done"
    /\ UNCHANGED <<fit_Cui, fit_T, fit_h, fit_X, fit_Y, fit_todo, fit_worker,
                   fit_unchanged>>

FitNext ==
    \/ FitInitFactors
    \/ \E w \in Workers : FitTake(w)
    \/ \E w \in Workers : FitSolve(w)
    \/ FitBarrier
    \/ FitReturn

SpecFit == FitInit /\ [][FitNext]_vars

\* the half-steps of t full alternations: user update, item update, t times
Alternations(t) == [k \in 1..(2 * t) |-> IF k % 2 = 1 THEN "user" ELSE "item"]

\* C7: a training run performs exactly T alternations, each a user update
\* followed by an item update, with nothing that stops it earlier or extends
\* it; it ends after the T-th item update and returns the factors of that
\* state.
C7_ExactlyTAlternations ==
    /\ fit_pc \in {"user", "item"} =>
          /\ fit_h <= 2 * fit_T
          /\ fit_pc = Alternations(fit_T)[fit_h]
          /\ fit_trace = SubSeq(Alternations(fit_T), 1, fit_h - 1)
    /\ \A r \in DOMAIN fit_result :
          /\ fit_result[r].trace = Alternations(fit_T)
          /\ \A u \in FitUsers : fit_result[r].user_factors[u].stamp = 2 * fit_T - 1
          /\ \A i \in FitItems : fit_result[r].item_factors[i].stamp = 2 * fit_T
    /\ (fit_pc = "done" \/ (fit_pc = "init" /\ fit_run = 2)) =>
          /\ fit_result[IF fit_pc = "done" THEN 2 ELSE 1].user_factors = fit_X
          /\ fit_result[IF fit_pc = "done" THEN 2 ELSE 1].item_factors = fit_Y

C7_Witness ==
    /\ fit_pc = "done"
    /\ fit_T = 2
    /\ fit_result[2].trace = <<"user", "item", "user", "item">>

\* C8: two runs of the model build over the same utility matrix with the
\* same parameters return identical user factors and item factors.
C8_TrainingIsDeterministic ==
    fit_pc = "done" =>
        /\ Factors(fit_result[1].user_factors) = Factors(fit_result[2].user_factors)
        /\ Factors(fit_result[1].item_factors) = Factors(fit_result[2].item_factors)

\* the fixed factor matrix of a half-step: the one its solves read
FixedOf(h) == IF IsUserStep(h) THEN fit_Y ELSE fit_X
OutputOf(h) == IF IsUserStep(h) THEN fit_X ELSE fit_Y

\* C10: while the row solves of a half-step run on several workers, every
\* worker reads the fixed factor matrix as the previous half-step left it
\* (never a row written in the current half-step), two workers never hold
\* the same output row, and no solve of a half-step is still running when
\* the next one has begun.
C10_HalfStepIsolation ==
    \A w \in Workers :
        fit_worker[w].busy =>
            /\ fit_worker[w].h = fit_h
            /\ \A r \in DOMAIN FixedOf(fit_worker[w].h) :
                  FixedOf(fit_worker[w].h)[r].stamp = fit_worker[w].h - 1
            /\ fit_worker[w].row \notin fit_todo
            /\ OutputOf(fit_h)[fit_worker[w].row].stamp < fit_h
            /\ \A v \in Workers \ {w} :
                  fit_worker[v].busy => fit_worker[v].row # fit_worker[w].row

C10_Witness ==
    /\ fit_h = 2
    /\ \A w \in Workers : fit_worker[w].busy
    /\ \E w \in Workers : fit_worker[w].row # fit_worker[1].row

\* the held-out basket of a user: the products of the lines of the user's
\* train order
test_basket(uid) ==
    {df_order_products_train[i].product_id :
        i \in {j \in 1..Len(df_order_products_train) :
                  df_orders[df_order_products_train[j].order_id].user_id = uid}}

\* C11: for every evaluated user both predictors are scored against the same
\* target set novel = test_basket(user) - history(user); the target holds no
\* item the user purchased before, and a user whose basket holds only items
\* purchased before gets recall 0 from both predictors.
C11_BothPredictorsScoreNovelItems ==
    \A c \in 1..Len(ev_calls) :
        LET uid == ev_calls[c].user_id
        IN  /\ ev_calls[c].actual = test_basket(uid) \ history(uid)
            /\ ev_calls[c].actual \cap history(uid) = {}
            /\ \A d \in 1..Len(ev_calls) :
                  ev_calls[d].user_id = uid => ev_calls[d].actual = ev_calls[c].actual
            /\ test_basket(uid) \subseteq history(uid) => ev_calls[c].ret.num = 0
            /\ ev_calls[c].ret.num
                  = Cardinality(ev_calls[c].actual \cap Range(ev_calls[c].pred))

C11_Witness ==
    /\ ev_pc = "done"
    /\ \E c \in CallsOf("popular_recommend"), d \in CallsOf("imf_recommend") :
          /\ ev_calls[c].user_id = ev_calls[d].user_id
          /\ test_basket(ev_calls[c].user_id) # {}
          /\ test_basket(ev_calls[c].user_id) \subseteq history(ev_calls[c].user_id)
          /\ ev_calls[c].ret.num = 0
          /\ ev_calls[d].ret.num = 0
    /\ \E c \in CallsOf("popular_recommend") :
          /\ ev_calls[c].actual # {}
          /\ ev_calls[c].actual # test_basket(ev_calls[c].user_id)
          /\ ev_calls[c].ret.num > 0

\* C12: after the cells have run in order, from any disk and with the
\* REBUILD_* constants as written, the utility matrix and the model in use
\* were built from the user-product dataframe whose categories define u_dict
\* and p_dict: no matrix or model file of an earlier run over other data is
\* combined with the index maps of the rebuilt dataframe.
C12_MatrixAndModelMatchIndexMaps ==
    (/\ AfterCell({"recommend", "print", "popular", "eval", "results", "done"})
     /\ Len(df_user_product_prior) > 0) =>
        /\ product_user_matrix = build_product_user_matrix(df_user_product_prior)
        /\ imf_model = build_imf(product_user_matrix, alpha)
        /\ product_user_matrix.nrows = Cardinality(DOMAIN p_dict)
        /\ product_user_matrix.ncols = Cardinality(DOMAIN u_dict)

====
